---- MODULE Spec2Model ----
(***************************************************************************)
(* State-machine model of hedisam/kubemock: the Kubernetes TokenReview     *)
(* mock server of src/api/kube_handler.go.  One KubeHandler is shared by   *)
(* the goroutines net/http starts, one per request.  A worker is such a    *)
(* goroutine; its steps are the handler's code between two points where    *)
(* it touches the shared map or its RWMutex.                               *)
(***************************************************************************)
EXTENDS Integers, Sequences, FiniteSets, TLC

(* ------------------------------ bounds --------------------------------- *)

\* Number of request goroutines that may be inside a handler at once.
NumWorkers == 1

\* Number of RSA keys crypto/rand hands to generateKubeJWT in a run.
MaxKeys == 2

\* Longest "uids" array a reset request carries.
MaxUids == 1

\* Number of times rand.Reader may repeat the key of a token that has been
\* returned, where repeated keys are considered.
MaxRepeats == 1

\* Number of request goroutines inside a handler at once when the requests
\* are those of the concurrent workload below.
NumConcurrent == 2

Workers == 1..NumWorkers

(* ------------------------- requests on the wire ------------------------ *)

Methods == {"GET", "POST", "PUT", "DELETE"}

\* The service accounts test clients register (README workflow step 1, and
\* one with name and namespace exchanged).
ServiceAccounts ==
    { [UID |-> "12345", Name |-> "my-service", Namespace |-> "default"],
      [UID |-> "67890", Name |-> "default", Namespace |-> "my-service"] }

\* The zero value of serviceAccountInfo: what `var sa serviceAccountInfo`
\* holds when the JSON object names none of its fields.
ZeroServiceAccount == [UID |-> "", Name |-> "", Namespace |-> ""]

\* Request payloads.  "none" is a request without any payload, "garbage"
\* is a payload that is not JSON, "object" is the JSON object {} (or any
\* object naming no field the handler reads).
NoBody == [kind |-> "none"]
\* r.Body of a request whose handler returns without reading it.
Unread == [kind |-> "unread"]
Garbage == [kind |-> "garbage"]
EmptyObject == [kind |-> "object"]
ServiceAccountBody(sa) == [kind |-> "sa", sa |-> sa]
TokenReviewBody(token) == [kind |-> "review", token |-> token]
UidsBody(uids) == [kind |-> "uids", uids |-> uids]

NoReq == [handler |-> "none", method |-> "", body |-> NoBody]
NoResp == [status |-> 0]

(* --------------------------- encoding/json ----------------------------- *)

\* A Decode whose error is dropped when the bytes are no JSON value.
DecodeError_SyntaxIgnored(body) ==
    CASE body.kind = "none" -> "EOF"
      [] OTHER -> ""

\* The error of Decoder.Decode: io.EOF on an empty stream, a SyntaxError on
\* bytes that are no JSON value, nil (written "") on a JSON object.
DecodeError(body) ==
    CASE body.kind = "none" -> "EOF"
      [] body.kind = "garbage" -> "invalid character"
      [] OTHER -> ""

\* Decode(&sa): fields the object does not name keep their zero value.
DecodeServiceAccountInfo(body) ==
    IF body.kind = "sa" THEN body.sa ELSE ZeroServiceAccount

\* Decode(&req) of a loginRequest: req.Spec.Token.
DecodeLoginToken(body) ==
    IF body.kind = "review" THEN body.token ELSE ""

\* Decode(&req) into map[string]any followed by req["uids"]: a JSON array
\* becomes a []interface{}, a missing key yields the nil interface.
DecodeResetUids(body) ==
    IF body.kind = "uids"
    THEN [type |-> "[]interface {}", elems |-> body.uids]
    ELSE [type |-> "nil", elems |-> << >>]

\* uids, _ := v.([]string): the assertion succeeds only on a dynamic type
\* of exactly []string; otherwise uids is the nil slice.
AssertStringSlice(v) ==
    IF v.type = "[]string" THEN v.elems ELSE << >>

(* ------------------------------ responses ------------------------------ *)

StatusOK == 200
StatusBadRequest == 400
StatusInternalServerError == 500
StatusNotImplemented == 501

\* fmt's %q of a plain ASCII string.
Quote(s) == "\"" \o s \o "\""

\* writeResponse(w, statusCode, nil): the status line alone.
EmptyResponse(statusCode) == [status |-> statusCode]

\* writeResponse with {"success": false, "error": msg}.
ErrorResponse(statusCode, msg) ==
    [status |-> statusCode, success |-> FALSE, error |-> msg]

\* The format string with its two arguments exchanged.
Username_Swapped(sa) ==
    "system:serviceaccount:" \o sa.Name \o ":" \o sa.Namespace

Username(sa) ==
    "system:serviceaccount:" \o sa.Namespace \o ":" \o sa.Name

Unauthenticated == [status |-> StatusOK, authenticated |-> FALSE]

\* A response that flags the token as known and leaves the user out.
Authenticated_NoUser(sa) == [status |-> StatusOK, authenticated |-> TRUE]

Authenticated(sa) ==
    [status |-> StatusOK, authenticated |-> TRUE,
     username |-> Username(sa), uid |-> sa.UID]

RegisterSucceeded(jwt) == [status |-> StatusOK, success |-> TRUE, jwt |-> jwt]

(* ------------------------- the credential issuer ----------------------- *)

\* The i-th private key rsa.GenerateKey(rand.Reader, 2048) returns.  Keys
\* are named by the order in which they are drawn: rand.Reader never yields
\* the same 2048-bit key twice.
Key(i) == "key" \o ToString(i)

\* base64url of {"alg":"RS256","typ":"JWT"}.
JWTHeader == "eyJhbGciOiJSUzI1NiIsInR5cCI6IkpXVCJ9"

\* The claims segment: jwt.MapClaims is marshalled with its keys sorted
\* (namespace, service-account.name, service-account.uid).  The base64url
\* text is written here in clear; both are injective in the three values.
\* A token whose claims are left empty.
ClaimsSegment_Empty(service, namespace, uid) == "{}"

ClaimsSegment(service, namespace, uid) ==
    "{namespace=" \o namespace \o ",name=" \o service \o ",uid=" \o uid \o "}"

\* The RS256 signature segment made with secretKey.
SignatureSegment(secretKey) == "sig-" \o secretKey

\* A generateKubeJWT that drops the signature segment from the token.
generateKubeJWT_Unsigned(service, namespace, uid, secretKey) ==
    JWTHeader \o "." \o ClaimsSegment(service, namespace, uid) \o "."

\* generateKubeJWT's result when neither GenerateKey nor SignedString fails.
generateKubeJWT(service, namespace, uid, secretKey) ==
    JWTHeader \o "." \o ClaimsSegment(service, namespace, uid)
              \o "." \o SignatureSegment(secretKey)

(* ------------------------ jwtToServiceAccountInfo ---------------------- *)

\* make(map[string]serviceAccountInfo)
EmptyMap == [t \in {} |-> ZeroServiceAccount]

\* m[key] = value
\* An insert whose write does not reach the map.
MapInsert_Dropped(m, key, value) == m

\* An insert that takes an existing key for a conflict and drops its entry.
MapInsert_Conflict(m, key, value) ==
    IF key \in DOMAIN m THEN [t \in (DOMAIN m) \ {key} |-> m[t]]
    ELSE [t \in (DOMAIN m) \cup {key} |-> IF t = key THEN value ELSE m[t]]

\* An insert into a map made anew: the entries written before are lost.
MapInsert_Fresh(m, key, value) == [t \in {key} |-> value]

MapInsert(m, key, value) ==
    [t \in (DOMAIN m) \cup {key} |-> IF t = key THEN value ELSE m[t]]

\* delete(m, key): no-op when key is absent.
MapDelete(m, key) == [t \in (DOMAIN m) \ {key} |-> m[t]]

\* for uid := range slices.Values(uids) { delete(m, uid) }
RECURSIVE DeleteKeys(_, _)
DeleteKeys(m, uids) ==
    IF uids = << >> THEN m ELSE DeleteKeys(MapDelete(m, Head(uids)), Tail(uids))

\* A reset without the len(uids) == 0 branch.
ResetRegistry_NoClear(m, uids) == DeleteKeys(m, uids)

\* The locked part of ResetHandler, as a function of the map and of uids.
ResetRegistry(m, uids) ==
    IF Len(uids) = 0 THEN EmptyMap ELSE DeleteKeys(m, uids)

\* A lookup that drops the comma-ok result: a missing key reads as the
\* zero serviceAccountInfo.
LoginResponse_NoCheck(m, token) ==
    Authenticated(IF token \in DOMAIN m THEN m[token] ELSE ZeroServiceAccount)

\* The locked part of LoginHandler: the comma-ok lookup and the response.
LoginResponse(m, token) ==
    IF token \notin DOMAIN m THEN Unauthenticated ELSE Authenticated(m[token])

(* --------------------------- method checks ----------------------------- *)

HealthAccepts(method) == method = "GET"
\* A method check that refuses GET alone.
ResetAccepts_NotGet(method) == method # "GET"

ResetAccepts(method) == method = "DELETE"
RegisterAccepts(method) == method = "POST"
LoginAccepts(method) == method = "POST" \/ method = "PUT"

(* ---------------------------- sync.RWMutex ----------------------------- *)

\* The lock as its holders, the writer (0: none) and the set of readers,
\* and the pending writer (0: none): the goroutine whose Lock call found
\* readers inside and waits for them.  Lock blocks while anyone else holds
\* or awaits the lock; RLock blocks while a writer holds or awaits it ("a
\* blocked Lock call excludes new readers from acquiring the lock").
\* A Lock that does not wait.
CanLock_Always(m, w) == TRUE

CanLock(m, w) == m.writer = 0 /\ m.readers = {} /\ m.pending \in {0, w}

\* Lock finds readers inside: the caller becomes the pending writer.
CanLockPending(m) == m.writer = 0 /\ m.pending = 0 /\ m.readers # {}

LockPending(m, w) == [m EXCEPT !.pending = w]

\* An RLock that does not wait for the writer.
CanRLock_Always(m) == TRUE

CanRLock(m) == m.writer = 0 /\ m.pending = 0

Lock(m, w) == [m EXCEPT !.writer = w, !.pending = 0]

\* An Unlock that is skipped.
Unlock_Skipped(m) == m

Unlock(m) == [m EXCEPT !.writer = 0]

RLock(m, w) == [m EXCEPT !.readers = @ \cup {w}]

\* An RUnlock that is skipped.
RUnlock_Skipped(m, w) == m

RUnlock(m, w) == [m EXCEPT !.readers = @ \ {w}]

(* ------------------------------- state --------------------------------- *)

VARIABLES
    registry,    \* KubeHandler.jwtToServiceAccountInfo
    mu,          \* KubeHandler.mu: [writer: 0 or a worker, readers: workers,
                 \*                 pending: 0 or a worker]
    pc,          \* where each worker is inside its handler ("idle": outside)
    req,         \* the request each worker is serving
    jwtToken,    \* RegisterServiceAccountHandler's local jwtToken
    resp,        \* what the worker has written to its ResponseWriter
    drawn,       \* the number of keys rand.Reader has produced so far
    returned,    \* history: each token a Register call has returned, with
                 \*          the identity registered and the number of calls
                 \*          that returned it
    sinceReset   \* history: tokens returned since the last reset that
                 \*          completed successfully

vars == << registry, mu, pc, req, jwtToken, resp, drawn, returned, sinceReset >>

\* Tokens handed to clients so far.
Returned == DOMAIN returned

\* The key set a reset request asks for, as its payload states it.
RequestedKeys(body) == IF body.kind = "uids" THEN body.uids ELSE << >>

\* The strings of S in some order.
RECURSIVE SeqOf(_)
SeqOf(S) ==
    IF S = {} THEN << >>
    ELSE LET x == CHOOSE y \in S : TRUE IN << x >> \o SeqOf(S \ {x})

\* The "uids" arrays clients send: at most MaxUids of the strings of
\* `known`, without repetition.
UidLists(known) ==
    {SeqOf(S) : S \in {T \in SUBSET known : Cardinality(T) <= MaxUids}}

\* A well-formed token a client assembled itself, not one Register gave it.
Forged == { generateKubeJWT("my-service", "default", "12345", Key(1)) }

RegisterBodies ==
    {NoBody, Garbage} \cup {ServiceAccountBody(sa) : sa \in ServiceAccounts}

LoginBodies ==
    {NoBody, Garbage, EmptyObject}
        \cup {TokenReviewBody(t) : t \in Returned \cup Forged}

ResetBodies ==
    {NoBody, Garbage, EmptyObject}
        \cup {UidsBody(l) : l \in UidLists(Returned \cup {"12345"})}

\* Payloads sent to a handler that does not read them.
OtherBodies == {NoBody, EmptyObject}

Init ==
    /\ registry = EmptyMap
    /\ mu = [writer |-> 0, readers |-> {}, pending |-> 0]
    /\ pc = [w \in Workers |-> "idle"]
    /\ req = [w \in Workers |-> NoReq]
    /\ jwtToken = [w \in Workers |-> ""]
    /\ resp = [w \in Workers |-> NoResp]
    /\ drawn = 0
    /\ returned = [t \in {} |-> [sa |-> ZeroServiceAccount, calls |-> 0]]
    /\ sinceReset = {}

\* The handler writes `response` and returns without reaching the lock.
Answer(w, r, response) ==
    /\ pc' = [pc EXCEPT ![w] = "return"]
    /\ req' = [req EXCEPT ![w] = r]
    /\ resp' = [resp EXCEPT ![w] = response]
    /\ UNCHANGED << registry, mu, jwtToken, drawn, returned, sinceReset >>

\* The handler goes on to its next step.
Proceed(w, r, next) ==
    /\ pc' = [pc EXCEPT ![w] = next]
    /\ req' = [req EXCEPT ![w] = r]
    /\ UNCHANGED << registry, mu, jwtToken, resp, drawn, returned, sinceReset >>

\* The handler's goroutine ends: its locals are gone.
Return(w) ==
    /\ pc' = [pc EXCEPT ![w] = "idle"]
    /\ req' = [req EXCEPT ![w] = NoReq]
    /\ resp' = [resp EXCEPT ![w] = NoResp]
    /\ jwtToken' = [jwtToken EXCEPT ![w] = ""]

\* The return of a handler that answered without reaching the lock.
HandlerReturn(w) ==
    /\ pc[w] = "return"
    /\ Return(w)
    /\ UNCHANGED << registry, mu, drawn, returned, sinceReset >>

(* ------------------------ UnimplementedHandler ------------------------- *)

UnimplementedHandler(w, method, body) ==
    /\ pc[w] = "idle"
    /\ Answer(w, [handler |-> "unimplemented", method |-> method,
                  body |-> Unread],
              ErrorResponse(StatusNotImplemented, "unimplemented request: /"))

(* ---------------------------- HealthHandler ---------------------------- *)

HealthHandler(w, method, body) ==
    /\ pc[w] = "idle"
    /\ LET r == [handler |-> "health", method |-> method, body |-> Unread] IN
       IF ~HealthAccepts(method)
       THEN Answer(w, r, ErrorResponse(StatusNotImplemented,
                "health handler expects GET but got " \o Quote(method)))
       ELSE Answer(w, r, EmptyResponse(StatusOK))

(* -------------------- RegisterServiceAccountHandler -------------------- *)

\* Entry: the method check and the decoding of the payload.
RegisterServiceAccountHandler(w, method, body) ==
    /\ pc[w] = "idle"
    /\ LET r == [handler |-> "register", method |-> method, body |-> body] IN
       IF ~RegisterAccepts(method)
       THEN Answer(w, [r EXCEPT !.body = Unread], ErrorResponse(StatusNotImplemented,
                "service account registration handler expects POST but got "
                    \o Quote(method)))
       ELSE IF DecodeError(body) # ""
       THEN Answer(w, r, ErrorResponse(StatusBadRequest,
                "invalid service account registration request: "
                    \o DecodeError(body)))
       ELSE Proceed(w, r, "reg_issue")

\* An error branch without its return: the handler goes on to answer as on
\* success, with the empty token generateKubeJWT returned.
IssueFailed_FallsThrough(err) == RegisterSucceeded("")

\* The response to an error of generateKubeJWT.
IssueFailed(err) ==
    ErrorResponse(StatusInternalServerError, "generate jwt token: " \o err)

\* jwtToken, err := generateKubeJWT(sa.Name, sa.Namespace, sa.UID).
\* GenerateKey and SignedString may each fail.
RegisterIssue(w) ==
    /\ pc[w] = "reg_issue"
    /\ LET sa == DecodeServiceAccountInfo(req[w].body) IN
         \/ \E err \in {"generate secret key", "sign token"} :
               /\ resp' = [resp EXCEPT ![w] = IssueFailed(err)]
               /\ pc' = [pc EXCEPT ![w] = "return"]
               /\ UNCHANGED << jwtToken, drawn >>
         \/ /\ drawn < MaxKeys
            /\ LET secretKey == Key(drawn + 1) IN
               /\ drawn' = drawn + 1
               /\ jwtToken' = [jwtToken EXCEPT ![w] =
                      generateKubeJWT(sa.Name, sa.Namespace, sa.UID, secretKey)]
            /\ pc' = [pc EXCEPT ![w] = "reg_lock"]
            /\ UNCHANGED resp
    /\ UNCHANGED << registry, mu, req, returned, sinceReset >>

\* s.mu.Lock(), s.jwtToServiceAccountInfo[jwtToken] = sa, and the success
\* response.
RegisterInsert(w) ==
    /\ pc[w] = "reg_lock"
    /\ CanLock(mu, w)
    /\ mu' = Lock(mu, w)
    /\ registry' = MapInsert(registry, jwtToken[w],
                             DecodeServiceAccountInfo(req[w].body))
    /\ resp' = [resp EXCEPT ![w] = RegisterSucceeded(jwtToken[w])]
    /\ pc' = [pc EXCEPT ![w] = "reg_unlock"]
    /\ UNCHANGED << req, jwtToken, drawn, returned, sinceReset >>

\* defer s.mu.Unlock(), and the return: the client has its token.
RegisterUnlock(w) ==
    /\ pc[w] = "reg_unlock"
    /\ mu' = Unlock(mu)
    /\ Return(w)
    /\ returned' =
          [t \in Returned \cup {jwtToken[w]} |->
              IF t # jwtToken[w] THEN returned[t]
              ELSE [sa |-> DecodeServiceAccountInfo(req[w].body),
                    calls |-> IF t \in Returned THEN returned[t].calls + 1
                                                ELSE 1]]
    /\ sinceReset' = sinceReset \cup {jwtToken[w]}
    /\ UNCHANGED << registry, drawn >>

(* ----------------------------- LoginHandler ---------------------------- *)

\* Entry: the method check and the decoding of the payload.
LoginHandler(w, method, body) ==
    /\ pc[w] = "idle"
    /\ LET r == [handler |-> "login", method |-> method, body |-> body] IN
       IF ~LoginAccepts(method)
       THEN Answer(w, [r EXCEPT !.body = Unread], ErrorResponse(StatusNotImplemented,
                "login request must be either PUT or POST but got "
                    \o Quote(method)))
       ELSE IF DecodeError(body) # ""
       THEN Answer(w, r, ErrorResponse(StatusBadRequest,
                "invalid login request: " \o DecodeError(body)))
       ELSE Proceed(w, r, "login_rlock")

\* s.mu.RLock(), sa, jwtValid := s.jwtToServiceAccountInfo[req.Spec.Token],
\* and the response of either branch.
LoginLookup(w) ==
    /\ pc[w] = "login_rlock"
    /\ CanRLock(mu)
    /\ mu' = RLock(mu, w)
    /\ resp' = [resp EXCEPT ![w] =
                   LoginResponse(registry, DecodeLoginToken(req[w].body))]
    /\ pc' = [pc EXCEPT ![w] = "login_runlock"]
    /\ UNCHANGED << registry, req, jwtToken, drawn, returned, sinceReset >>

\* defer s.mu.RUnlock(), and the return.
LoginRUnlock(w) ==
    /\ pc[w] = "login_runlock"
    /\ mu' = RUnlock(mu, w)
    /\ Return(w)
    /\ UNCHANGED << registry, drawn, returned, sinceReset >>

(* ----------------------------- ResetHandler ---------------------------- *)

\* Entry: the method check and the decoding of the payload.  The "error"
\* value of the 400 response is an error, which encoding/json writes as {}.
ResetHandler(w, method, body) ==
    /\ pc[w] = "idle"
    /\ LET r == [handler |-> "reset", method |-> method, body |-> body] IN
       IF ~ResetAccepts(method)
       THEN Answer(w, [r EXCEPT !.body = Unread], ErrorResponse(StatusNotImplemented,
                "reset handler expects DELETE but got " \o Quote(method)))
       ELSE IF DecodeError(body) # ""
       THEN Answer(w, r, ErrorResponse(StatusBadRequest, "{}"))
       ELSE Proceed(w, r, "reset_lock")

\* s.mu.Lock(), uids, _ := req["uids"].([]string), then either branch and
\* its response.
ResetApply(w) ==
    /\ pc[w] = "reset_lock"
    /\ CanLock(mu, w)
    /\ mu' = Lock(mu, w)
    /\ LET uids == AssertStringSlice(DecodeResetUids(req[w].body)) IN
       registry' = ResetRegistry(registry, uids)
    /\ resp' = [resp EXCEPT ![w] = EmptyResponse(StatusOK)]
    /\ pc' = [pc EXCEPT ![w] = "reset_unlock"]
    /\ UNCHANGED << req, jwtToken, drawn, returned, sinceReset >>

\* defer s.mu.Unlock(), and the return.
ResetUnlock(w) ==
    /\ pc[w] = "reset_unlock"
    /\ mu' = Unlock(mu)
    /\ Return(w)
    /\ sinceReset' = {}
    /\ UNCHANGED << registry, drawn, returned >>

(* ---------------------------- specification ---------------------------- *)

Next ==
    \E w \in Workers :
        \/ \E method \in Methods, body \in OtherBodies :
               UnimplementedHandler(w, method, body)
        \/ \E method \in Methods, body \in OtherBodies :
               HealthHandler(w, method, body)
        \/ \E method \in Methods, body \in RegisterBodies :
               RegisterServiceAccountHandler(w, method, body)
        \/ RegisterIssue(w)
        \/ RegisterInsert(w)
        \/ RegisterUnlock(w)
        \/ \E method \in Methods, body \in LoginBodies :
               LoginHandler(w, method, body)
        \/ LoginLookup(w)
        \/ LoginRUnlock(w)
        \/ \E method \in Methods, body \in ResetBodies :
               ResetHandler(w, method, body)
        \/ ResetApply(w)
        \/ ResetUnlock(w)
        \/ HandlerReturn(w)

Spec == Init /\ [][Next]_vars

(* ------------------------- concurrent workload ------------------------- *)

\* The goroutines of the concurrent workload.
Concurrent == 1..NumConcurrent

\* What clients send while several requests are in flight: registrations
\* (well formed, with a wrong method, with a body that is no JSON), logins
\* with a token a client holds or may have assembled, and full resets.
ConcurrentRegisterMethods == {"POST", "GET"}

ConcurrentRegisterBodies ==
    {Garbage} \cup {ServiceAccountBody(sa) : sa \in ServiceAccounts}

ConcurrentLoginBodies == {TokenReviewBody(t) : t \in Returned \cup Forged}

\* s.mu.Lock() of a registration or a reset, called while logins are
\* inside their lookup: the caller waits, and holds back new readers.
\* Next and NextRepeated leave this step out and take Lock in one step,
\* which allows every order of lock acquisitions that waiting allows, and
\* more.
LockWait(w) ==
    /\ pc[w] \in {"reg_lock", "reset_lock"}
    /\ CanLockPending(mu)
    /\ mu' = LockPending(mu, w)
    /\ UNCHANGED << registry, pc, req, jwtToken, resp, drawn, returned,
                    sinceReset >>

InitConcurrent ==
    /\ registry = EmptyMap
    /\ mu = [writer |-> 0, readers |-> {}, pending |-> 0]
    /\ pc = [w \in Concurrent |-> "idle"]
    /\ req = [w \in Concurrent |-> NoReq]
    /\ jwtToken = [w \in Concurrent |-> ""]
    /\ resp = [w \in Concurrent |-> NoResp]
    /\ drawn = 0
    /\ returned = [t \in {} |-> [sa |-> ZeroServiceAccount, calls |-> 0]]
    /\ sinceReset = {}

NextConcurrent ==
    \E w \in Concurrent :
        \/ \E method \in ConcurrentRegisterMethods,
              body \in ConcurrentRegisterBodies :
               RegisterServiceAccountHandler(w, method, body)
        \/ RegisterIssue(w)
        \/ LockWait(w)
        \/ RegisterInsert(w)
        \/ RegisterUnlock(w)
        \/ \E body \in ConcurrentLoginBodies : LoginHandler(w, "POST", body)
        \/ LoginLookup(w)
        \/ LoginRUnlock(w)
        \/ ResetHandler(w, "DELETE", EmptyObject)
        \/ ResetApply(w)
        \/ ResetUnlock(w)
        \/ HandlerReturn(w)

SpecConcurrent == InitConcurrent /\ [][NextConcurrent]_vars

\* Scheduling: the Go scheduler runs every runnable goroutine, and
\* sync.RWMutex starves neither side: a pending Lock holds back new
\* readers, Unlock admits the waiting readers, and the writers' mutex
\* hands over to a waiter that has waited long.  So a step that needs no
\* lock is taken if it stays enabled, and a step that takes the lock is
\* taken if it is enabled again and again.
Fairness ==
    \A w \in Concurrent :
        /\ WF_vars(\/ RegisterIssue(w) \/ RegisterUnlock(w)
                   \/ LoginRUnlock(w) \/ ResetUnlock(w)
                   \/ HandlerReturn(w))
        /\ SF_vars(\/ LockWait(w) \/ RegisterInsert(w)
                   \/ ResetApply(w) \/ LoginLookup(w))

\* The requests that contend for the lock: registrations of the README's
\* account, logins with the token a client has assembled for it (unknown
\* until the first key signs that account), and full resets.
NextContending ==
    \E w \in Concurrent :
        \/ \E sa \in {s \in ServiceAccounts : s.UID = "12345"} :
               RegisterServiceAccountHandler(w, "POST", ServiceAccountBody(sa))
        \/ RegisterIssue(w)
        \/ LockWait(w)
        \/ RegisterInsert(w)
        \/ RegisterUnlock(w)
        \/ \E t \in Forged : LoginHandler(w, "POST", TokenReviewBody(t))
        \/ LoginLookup(w)
        \/ LoginRUnlock(w)
        \/ ResetHandler(w, "DELETE", EmptyObject)
        \/ ResetApply(w)
        \/ ResetUnlock(w)
        \/ HandlerReturn(w)

FairConcurrent == InitConcurrent /\ [][NextContending]_vars /\ Fairness

(* ------------------------------ properties ----------------------------- *)

\* The token a login request presents.
PresentedToken(w) == DecodeLoginToken(req[w].body)

\* The response spec'd for a token that names service account sa.
IdentityOf(sa) ==
    [status |-> 200, authenticated |-> TRUE,
     username |-> "system:serviceaccount:" \o sa.Namespace \o ":" \o sa.Name,
     uid |-> sa.UID]

\* The response spec'd for a token that names nobody: flagged not
\* authenticated, no identity fields, the status of a normal answer.
NotAuthenticated == [status |-> 200, authenticated |-> FALSE]

\* A login whose lookup has run and whose answer is written.
LoginAnswered(w) == pc[w] = "login_runlock"

\* A reset whose locked part has run and whose answer is written.
ResetAnswered(w) == pc[w] = "reset_unlock"

\* C1: a login that presents a token returned by a registration since the
\* last reset is answered authenticated, with the registered uid and the
\* username system:serviceaccount:<namespace>:<name>; for the README's
\* account that is system:serviceaccount:default:my-service, uid 12345.
C1_ValidateReportsIdentity ==
    \A w \in Workers :
        LoginAnswered(w) /\ PresentedToken(w) \in sinceReset
        => /\ resp[w] = IdentityOf(returned[PresentedToken(w)].sa)
           /\ returned[PresentedToken(w)].sa =
                  [UID |-> "12345", Name |-> "my-service",
                   Namespace |-> "default"]
              => /\ resp[w].username =
                        "system:serviceaccount:default:my-service"
                 /\ resp[w].uid = "12345"

\* A login with a live token of the account named "default" in namespace
\* "my-service" is answered with the namespace first.
C1_Witness ==
    \E w \in Workers :
        /\ LoginAnswered(w)
        /\ PresentedToken(w) \in sinceReset
        /\ returned[PresentedToken(w)].sa.Name = "default"
        /\ resp[w].authenticated
        /\ resp[w].username = "system:serviceaccount:my-service:default"

\* C2: a login that presents a token no registration has returned is
\* answered not authenticated, without identity fields, with status 200.
C2_UnknownTokenNotAuthenticated ==
    \A w \in Workers :
        LoginAnswered(w) /\ PresentedToken(w) \notin Returned
        => resp[w] = NotAuthenticated

\* A well-formed token nobody was given is presented while other accounts
\* are registered.
C2_Witness ==
    \E w \in Workers :
        /\ LoginAnswered(w)
        /\ PresentedToken(w) \in Forged
        /\ PresentedToken(w) \notin Returned
        /\ registry # EmptyMap
        /\ resp[w] = NotAuthenticated

\* C3: with a fresh key per call no two registrations return the same
\* token, also for the same identity; and while no reset is under way every
\* token returned since the last reset has its own entry, under which a
\* login reports the identity it was registered with.
C3_RegisterNeverOverwrites ==
    /\ \A t \in Returned : returned[t].calls = 1
    /\ (\A w \in Workers : ~ResetAnswered(w))
       => \A t \in sinceReset :
              /\ t \in DOMAIN registry
              /\ registry[t] = returned[t].sa
              /\ LoginResponse(registry, t) = IdentityOf(returned[t].sa)

\* Two registrations of one identity have returned, and both tokens are
\* live.
C3_Witness ==
    \E t1 \in sinceReset, t2 \in sinceReset :
        /\ t1 # t2
        /\ returned[t1].sa = returned[t2].sa
        /\ {t1, t2} \subseteq DOMAIN registry

\* C4: a successful reset that names no key leaves the registry empty; a
\* token that is absent from the registry stays absent, whatever is done
\* next, since no later registration returns it; and a login that presents
\* an absent token is answered not authenticated.
C4_ResetAllEmptiesRegistry ==
    /\ [](\A w \in Workers :
              ResetAnswered(w) /\ RequestedKeys(req[w].body) = << >>
              => registry = EmptyMap /\ resp[w].status = 200)
    /\ [][\A t \in Returned :
              t \notin DOMAIN registry => t \notin DOMAIN registry']_vars
    /\ [](\A w \in Workers :
              LoginAnswered(w) /\ PresentedToken(w) \notin DOMAIN registry
              => resp[w] = NotAuthenticated)

\* A keyless reset has emptied a registry that held live tokens.
C4_Witness ==
    \E w \in Workers :
        /\ ResetAnswered(w)
        /\ RequestedKeys(req[w].body) = << >>
        /\ sinceReset # {}
        /\ registry = EmptyMap
        /\ resp[w].status = 200

\* The keys of a sequence.
Range(seq) == {seq[i] : i \in 1..Len(seq)}

\* C5: a reset that names a non-empty list of keys removes the entries
\* under those keys and keeps every other entry: the tokens that were live
\* and are not named are still registered with their identity.
C5_KeyedResetKeepsOthers ==
    \A w \in Workers :
        ResetAnswered(w) /\ RequestedKeys(req[w].body) # << >>
        => /\ \A t \in sinceReset \ Range(RequestedKeys(req[w].body)) :
                  t \in DOMAIN registry /\ registry[t] = returned[t].sa
           /\ \A t \in Range(RequestedKeys(req[w].body)) :
                  t \notin DOMAIN registry

\* C6: a reset that names keys of which none is a registered token leaves
\* the registry as it was and answers with status 200.
C6_UnknownKeysNoop ==
    \A w \in Workers :
        /\ ResetAnswered(w)
        /\ RequestedKeys(req[w].body) # << >>
        /\ Range(RequestedKeys(req[w].body)) \cap sinceReset = {}
        => /\ resp[w].status = 200
           /\ DOMAIN registry = sinceReset
           /\ \A t \in sinceReset : registry[t] = returned[t].sa

\* C7: a DELETE to the reset endpoint without a body is treated as a reset
\* that names no key: it is answered with status 200 and the registry is
\* empty.
C7_BodylessResetClears ==
    \A w \in Workers :
        /\ req[w].handler = "reset"
        /\ req[w].method = "DELETE"
        /\ req[w].body = NoBody
        /\ pc[w] # "idle"
        => /\ pc[w] \in {"reset_lock", "reset_unlock"}
           /\ pc[w] = "reset_unlock"
              => resp[w].status = 200 /\ registry = EmptyMap

\* A registration or login request with an accepted method whose body does
\* not decode.
Malformed(r) ==
    /\ \/ r.handler = "register" /\ r.method = "POST"
       \/ r.handler = "login" /\ r.method \in {"POST", "PUT"}
    /\ r.body.kind \in {"none", "garbage"}

\* C8: a registration or login whose body does not decode is answered with
\* status 400 and success false, goes no further than that answer, and the
\* steps it takes leave the registry as it is.
C8_MalformedBodyRejected ==
    /\ [](\A w \in Workers :
              Malformed(req[w])
              => /\ pc[w] = "return"
                 /\ resp[w].status = 400
                 /\ resp[w].success = FALSE)
    /\ [][\A w \in Workers :
              pc'[w] # pc[w] /\ (Malformed(req[w]) \/ Malformed(req'[w]))
              => registry' = registry]_vars

\* A registration with a body that is no JSON is refused while an account
\* is registered.
C8_Witness ==
    \E w \in Workers :
        /\ req[w] = [handler |-> "register", method |-> "POST",
                     body |-> Garbage]
        /\ pc[w] = "return"
        /\ resp[w].status = 400
        /\ registry # EmptyMap

\* A request with a method its endpoint does not accept.
WrongMethod(r) ==
    \/ r.handler = "health" /\ r.method # "GET"
    \/ r.handler = "register" /\ r.method # "POST"
    \/ r.handler = "login" /\ r.method \notin {"POST", "PUT"}
    \/ r.handler = "reset" /\ r.method # "DELETE"

\* C9: a request with a method its endpoint does not accept is answered
\* with status 501 and success false, goes no further than that answer,
\* and the steps it takes leave the registry as it is: no reset removes
\* and no registration adds an entry.
C9_WrongMethodRejected ==
    /\ [](\A w \in Workers :
              WrongMethod(req[w])
              => /\ pc[w] = "return"
                 /\ resp[w].status = 501
                 /\ resp[w].success = FALSE)
    /\ [][\A w \in Workers :
              pc'[w] # pc[w] /\ (WrongMethod(req[w]) \/ WrongMethod(req'[w]))
              => registry' = registry]_vars

\* A POST to the reset endpoint is refused and the registered account
\* stays.
C9_Witness ==
    \E w \in Workers :
        /\ req[w].handler = "reset"
        /\ req[w].method = "POST"
        /\ pc[w] = "return"
        /\ resp[w].status = 501
        /\ registry # EmptyMap

\* A registration that was well formed and has answered before it reached
\* the lock: its token could not be issued.
IssuanceFailed(w) ==
    /\ req[w].handler = "register"
    /\ req[w].method = "POST"
    /\ req[w].body.kind = "sa"
    /\ pc[w] = "return"

\* C10: a registration whose token cannot be issued is answered with
\* status 500 and success false, returns no token, and the registry is as
\* it was before the attempt.
C10_IssuanceFailureRejected ==
    /\ [](\A w \in Workers :
              IssuanceFailed(w)
              => /\ resp[w].status = 500
                 /\ resp[w].success = FALSE
                 /\ "jwt" \notin DOMAIN resp[w]
                 /\ jwtToken[w] = "")
    /\ [][\A w \in Workers :
              pc[w] \in {"idle", "reg_issue"} /\ IssuanceFailed(w)'
              => registry' = registry]_vars
    /\ [][\A w \in Workers :
              pc[w] = "idle" /\ pc'[w] = "reg_issue"
              => registry' = registry]_vars

\* The issuing of a token fails while an account is registered.
C10_Witness ==
    \E w \in Workers :
        /\ IssuanceFailed(w)
        /\ resp[w].status = 500
        /\ registry # EmptyMap

\* A request to a handler that only reads: login, health probe, and the
\* handler of unrecognized paths.
ReadOnly(r) == r.handler \in {"login", "health", "unimplemented"}

\* C14: login, health probe and the handler of unrecognized requests are
\* read-only: no step of such a request changes the registry, whatever its
\* method and payload; and the answer of a login is determined by its
\* token and the registry alone, so a login repeated while the registry is
\* the same is answered the same, as are two logins with one token that
\* are inside their lookup together.
C14_ValidateReadOnly ==
    /\ [][\A w \in DOMAIN pc :
              pc'[w] # pc[w] /\ (ReadOnly(req[w]) \/ ReadOnly(req'[w]))
              => registry' = registry]_vars
    /\ [](\A w \in DOMAIN pc :
              LoginAnswered(w)
              => resp[w] =
                   IF PresentedToken(w) \in DOMAIN registry
                   THEN IdentityOf(registry[PresentedToken(w)])
                   ELSE NotAuthenticated)
    /\ [](\A w1 \in DOMAIN pc, w2 \in DOMAIN pc :
              /\ LoginAnswered(w1) /\ LoginAnswered(w2)
              /\ PresentedToken(w1) = PresentedToken(w2)
              => resp[w1] = resp[w2])

\* A login with a registered token is answered while two accounts are
\* registered, and both still are.
C14_Witness ==
    \E w \in DOMAIN pc :
        /\ LoginAnswered(w)
        /\ PresentedToken(w) \in DOMAIN registry
        /\ resp[w].authenticated
        /\ Cardinality(DOMAIN registry) = 2
        /\ DOMAIN registry = sinceReset

(* --------------------------- repeated keys ----------------------------- *)

\* rsa.GenerateKey returns a key it has returned before, for the identity
\* it was used for before: the token is one that was returned already.
\* Nothing in generateKubeJWT or its caller excludes it.  (A repeated key
\* used for another identity gives a new token, as a fresh key does.)
RegisterIssueRepeated(w) ==
    /\ pc[w] = "reg_issue"
    /\ \E i \in 1..drawn :
          LET sa == DecodeServiceAccountInfo(req[w].body)
              secretKey == Key(i)
              token == generateKubeJWT(sa.Name, sa.Namespace, sa.UID,
                                       secretKey) IN
          /\ token \in Returned
          /\ returned[token].calls <= MaxRepeats
          /\ jwtToken' = [jwtToken EXCEPT ![w] = token]
    /\ pc' = [pc EXCEPT ![w] = "reg_lock"]
    /\ UNCHANGED << registry, mu, req, resp, drawn, returned, sinceReset >>

\* The requests considered with repeated keys: well-formed registrations,
\* logins with a returned token, full resets, health probes and requests
\* to other paths.
NextRepeated ==
    \E w \in Workers :
        \/ UnimplementedHandler(w, "GET", NoBody)
        \/ HealthHandler(w, "GET", NoBody)
        \/ \E sa \in ServiceAccounts :
               RegisterServiceAccountHandler(w, "POST", ServiceAccountBody(sa))
        \/ RegisterIssue(w)
        \/ RegisterIssueRepeated(w)
        \/ RegisterInsert(w)
        \/ RegisterUnlock(w)
        \/ \E t \in Returned : LoginHandler(w, "POST", TokenReviewBody(t))
        \/ LoginLookup(w)
        \/ LoginRUnlock(w)
        \/ ResetHandler(w, "DELETE", EmptyObject)
        \/ ResetApply(w)
        \/ ResetUnlock(w)
        \/ HandlerReturn(w)

SpecRepeated == Init /\ [][NextRepeated]_vars

\* A reset of goroutine w deletes in this step and answers 200.
ResetDeletes(w) ==
    /\ req[w].handler = "reset"
    /\ pc[w] = "reset_lock"
    /\ pc'[w] = "reset_unlock"
    /\ resp'[w].status = 200

\* C13: an entry is never changed in place and never removed except by a
\* reset: in every step a token of the registry keeps its identity or
\* becomes absent, the latter only in the deleting step of a reset that
\* answers 200; and a token that comes back after it was absent is bound
\* to the identity it had when it was returned before.
C13_EntriesImmutable ==
    /\ [][\A t \in DOMAIN registry :
              \/ t \in DOMAIN registry' /\ registry'[t] = registry[t]
              \/ /\ t \notin DOMAIN registry'
                 /\ \E w \in DOMAIN pc : ResetDeletes(w)]_vars
    /\ [](\A t \in DOMAIN registry \cap Returned :
              registry[t] = returned[t].sa)

\* A token that was returned and then removed by a reset is registered
\* again, by a registration that drew the same key for the same identity.
C13_Witness ==
    \E w \in DOMAIN pc :
        /\ pc[w] = "reg_unlock"
        /\ jwtToken[w] \in Returned \ sinceReset
        /\ registry[jwtToken[w]] = returned[jwtToken[w]].sa

\* A registration has inserted under a token that was registered already.
Collided(w) == pc[w] = "reg_unlock" /\ jwtToken[w] \in sinceReset

\* C16: the insert is unconditional: every registration that reaches it
\* answers success with its token; when the token was registered already
\* the answer is the same, the token is bound to the identity of this
\* request, a login with it would report that identity, and the registry
\* has the keys it had before, no more.
C16_InsertOverwrites ==
    \A w \in DOMAIN pc :
        pc[w] = "reg_unlock"
        => /\ resp[w] = [status |-> 200, success |-> TRUE,
                         jwt |-> jwtToken[w]]
           /\ jwtToken[w] \in DOMAIN registry
           /\ registry[jwtToken[w]] = req[w].body.sa
           /\ Collided(w)
              => /\ DOMAIN registry = sinceReset
                 /\ LoginResponse(registry, jwtToken[w])
                        = IdentityOf(req[w].body.sa)

\* A registration drew the key of a registered token and has inserted
\* under it while another token is registered too.
C16_Witness ==
    \E w \in DOMAIN pc :
        /\ Collided(w)
        /\ resp[w].success
        /\ Cardinality(DOMAIN registry) = 2

(* ------------------------ concurrency properties ----------------------- *)

\* The goroutines of the run.
Goroutines == DOMAIN pc

\* The goroutines inside a write access to the registry: a registration
\* that has inserted or a reset that has deleted, and not yet unlocked.
Writing == {w \in Goroutines : pc[w] \in {"reg_unlock", "reset_unlock"}}

\* The goroutines inside a read access: a login that has looked up its
\* token and not yet unlocked.
Reading == {w \in Goroutines : pc[w] = "login_runlock"}

\* C11: registrations that run concurrently lose no update: while no
\* reset is deleting, the registry holds exactly the tokens returned since
\* the last reset and the token of the registration that is inside its
\* insert; each returned token is bound to the identity of the call that
\* returned it, and a login with it reports that identity.
C11_NoLostUpdates ==
    (\A w \in Goroutines : pc[w] # "reset_unlock")
    => /\ DOMAIN registry =
              sinceReset \cup {jwtToken[w] : w \in Writing}
       /\ \A t \in sinceReset :
              /\ registry[t] = returned[t].sa
              /\ LoginResponse(registry, t) = IdentityOf(returned[t].sa)

\* Two registrations are in flight with their tokens issued: one is
\* inside its insert, the other waits for the lock.
C11_Witness ==
    \E w1 \in Goroutines, w2 \in Goroutines :
        /\ pc[w1] = "reg_unlock"
        /\ pc[w2] = "reg_lock"
        /\ jwtToken[w1] \in DOMAIN registry
        /\ jwtToken[w2] \notin DOMAIN registry

\* C12: reader-writer exclusion: at most one goroutine is inside a write
\* access, and while one is, none is inside a read access; the lock's
\* holders are exactly those goroutines.  (Several reads at once are
\* allowed: see the witness.)
C12_ReaderWriterExclusion ==
    /\ Cardinality(Writing) <= 1
    /\ Writing # {} => Reading = {}
    /\ mu.readers = Reading
    /\ \A w \in Goroutines : mu.writer = w <=> w \in Writing
    /\ Writing = {} <=> mu.writer = 0

\* Two logins are inside their lookup at the same time.
C12_Witness ==
    /\ Cardinality(Reading) >= 2
    /\ mu.writer = 0

\* What the operations do when they run one after the other: a register
\* binds its token, a validate reads, a full reset empties.
SerialRegister(m, t, sa) ==
    [x \in DOMAIN m \cup {t} |-> IF x = t THEN sa ELSE m[x]]

SerialValidate(m, t) ==
    IF t \in DOMAIN m THEN IdentityOf(m[t]) ELSE NotAuthenticated

\* Goroutine w takes a step, and no other does.
StepOf(w) ==
    /\ pc'[w] # pc[w]
    /\ \A v \in Goroutines \ {w} :
           pc'[v] = pc[v] /\ resp'[v] = resp[v] /\ req'[v] = req[v]

\* A goroutine starts to wait for the lock: nothing else changes.
Waits ==
    /\ mu' # mu
    /\ UNCHANGED << registry, pc, req, resp >>

\* The step in which the request of w takes effect, all at once, on the
\* registry as the requests before it left it.
TakesEffect(w) ==
    \/ /\ pc[w] = "reg_lock" /\ pc'[w] = "reg_unlock"
       /\ mu.writer = 0 /\ mu.readers = {}
       /\ registry' = SerialRegister(registry, jwtToken[w], req[w].body.sa)
       /\ resp'[w] = [status |-> 200, success |-> TRUE, jwt |-> jwtToken[w]]
    \/ /\ pc[w] = "reset_lock" /\ pc'[w] = "reset_unlock"
       /\ mu.writer = 0 /\ mu.readers = {}
       /\ registry' = << >>
       /\ resp'[w] = [status |-> 200]
    \/ /\ pc[w] = "login_rlock" /\ pc'[w] = "login_runlock"
       /\ mu.writer = 0
       /\ registry' = registry
       /\ resp'[w] = SerialValidate(registry, PresentedToken(w))

\* C15: the requests are linearizable.  Every step is the step of one
\* goroutine; a request reads or writes the registry in one step only,
\* which lies between its call and its return, which no conflicting
\* access overlaps, and in which effect and answer are those of the
\* operation run alone on the registry of that moment; the answer is what
\* the request returns.  So the order of these steps is a serial order
\* that agrees with real time.  A login answers not authenticated or the
\* whole identity its token was registered with, and while a login is
\* inside its lookup no reset is inside its delete.
C15_Linearizable ==
    /\ [][\/ Waits
              \/ \E w \in Goroutines :
                    /\ StepOf(w)
                    /\ \/ TakesEffect(w)
                       \/ /\ pc[w] \notin {"reg_lock", "reset_lock",
                                            "login_rlock"}
                          /\ registry' = registry
                          /\ pc[w] \in {"reg_unlock", "reset_unlock",
                                        "login_runlock"}
                             => pc'[w] = "idle"]_vars
    /\ [](\A w \in Goroutines :
              LoginAnswered(w)
              => \/ resp[w] = NotAuthenticated
                 \/ /\ PresentedToken(w) \in Returned
                    /\ resp[w] = IdentityOf(returned[PresentedToken(w)].sa))
    /\ [](\A w \in Goroutines, v \in Goroutines :
              LoginAnswered(w) /\ req[v].handler = "reset"
              => pc[v] = "reset_lock")

\* A login that presents the token of a registration in flight is
\* answered not authenticated: the registration has its token and waits
\* for the lock the login holds.
C15_Witness ==
    \E w \in Goroutines, v \in Goroutines :
        /\ LoginAnswered(w)
        /\ pc[v] = "reg_lock"
        /\ PresentedToken(w) = jwtToken[v]
        /\ resp[w] = NotAuthenticated

\* The goroutines that have written a success response with a token.
Replied == {w \in Goroutines : "jwt" \in DOMAIN resp[w]}

\* The tokens callers hold: those of registrations that have returned
\* since the last reset, and those in a response already written.
Held == sinceReset \cup {resp[w].jwt : w \in Replied}

\* C17: a registration publishes before it replies: whenever a success
\* response with a token is written, the registry binds that token to the
\* request's identity; while no reset is deleting, every token a caller
\* holds is in the registry; and a login with a held token that gets to
\* its lookup is answered authenticated.
C17_PublishBeforeReply ==
    /\ \A w \in Replied :
           /\ resp[w].jwt \in DOMAIN registry
           /\ registry[resp[w].jwt] = req[w].body.sa
    /\ (\A w \in Goroutines : pc[w] # "reset_unlock")
       => Held \subseteq DOMAIN registry
    /\ \A w \in Goroutines :
           LoginAnswered(w) /\ PresentedToken(w) \in Held
           => resp[w].authenticated

\* The response with the token is written and the lock not yet released,
\* and a login with that token waits for the lock.
C17_Witness ==
    \E w \in Replied, v \in Goroutines :
        /\ pc[v] = "login_rlock"
        /\ PresentedToken(v) = resp[w].jwt
        /\ mu.writer = w

\* Goroutine w holds the lock, as writer or as reader.
Holds(w) == mu.writer = w \/ w \in mu.readers

\* Goroutine w is inside a handler and cannot take its next step.
Blocked(w) ==
    /\ pc[w] # "idle"
    /\ ~ENABLED (\/ RegisterIssue(w) \/ RegisterInsert(w) \/ RegisterUnlock(w)
                 \/ LockWait(w)
                 \/ LoginLookup(w) \/ LoginRUnlock(w)
                 \/ ResetApply(w) \/ ResetUnlock(w)
                 \/ HandlerReturn(w))

\* C18: a goroutine holds the lock only between its handler's locking
\* step and its return, on every path: outside a handler, before the
\* locking step and after an answer on an error path it holds nothing; a
\* handler reaches its locking step once, from its entry; the requests in
\* flight are never all blocked; and under fair scheduling a request that
\* is in flight completes.
C18_LockReleasedAndProgress ==
    /\ [](\A w \in Concurrent :
              Holds(w) <=> pc[w] \in {"reg_unlock", "reset_unlock",
                                       "login_runlock"})
    /\ [][\A w \in Concurrent :
              Holds(w)' /\ ~Holds(w)
              => /\ pc[w] \in {"reg_lock", "reset_lock", "login_rlock"}
                 /\ mu.writer = 0]_vars
    /\ [][\A w \in Concurrent :
              /\ pc'[w] # pc[w]
              /\ pc'[w] \in {"reg_lock", "reset_lock", "login_rlock"}
              => pc[w] \in {"idle", "reg_issue"} /\ ~Holds(w)]_vars
    /\ []((\E w \in Concurrent : pc[w] # "idle")
          => \E w \in Concurrent : pc[w] # "idle" /\ ~Blocked(w))
    /\ \A w \in Concurrent : (pc[w] # "idle") ~> (pc[w] = "idle")

\* A login with an unknown token is on its early-return path and holds
\* the read lock; a reset waits for it.
C18_Witness ==
    \E w \in Concurrent, v \in Concurrent :
        /\ pc[w] = "login_runlock"
        /\ resp[w] = NotAuthenticated
        /\ pc[v] = "reset_lock"
        /\ Blocked(v)

\* Goroutine w is outside its handler's locked part and has not called
\* Lock or RLock: it is idle, issues a token, or has answered an error.
Unlocked(w) == pc[w] \in {"idle", "reg_issue", "return"}

\* C19: issuance runs outside the lock.  A registration holds the write
\* lock in its insert step only: while it parses (its entry step), issues
\* or waits it holds nothing, and before it has called Lock it is not the
\* pending writer either.  A request that answers an error came there
\* from its entry or from issuing, so it never had the lock.  And a
\* goroutine is never blocked by goroutines that are issuing, idle or
\* answering an error.
C19_IssuanceOutsideLock ==
    /\ [](\A w \in Goroutines :
              /\ pc[w] \in {"idle", "reg_issue", "reg_lock", "return"}
                 => ~Holds(w)
              /\ Unlocked(w) => mu.pending # w
              /\ req[w].handler = "register"
                 => (mu.writer = w <=> pc[w] = "reg_unlock"))
    /\ [][\A w \in Goroutines :
              pc'[w] = "return" /\ pc[w] # "return"
              => /\ pc[w] \in {"idle", "reg_issue"}
                 /\ ~Holds(w) /\ ~Holds(w)'
                 /\ mu' = mu]_vars
    /\ [](\A v \in Goroutines :
              (\A u \in Goroutines \ {v} : Unlocked(u)) => ~Blocked(v))

\* A registration is issuing its token while a reset is inside its
\* delete and holds the write lock.
C19_Witness ==
    \E w \in Goroutines, v \in Goroutines :
        /\ pc[w] = "reg_issue"
        /\ pc[v] = "reset_unlock"
        /\ mu.writer = v

====
